---- MODULE Spec2Model ----
(***************************************************************************)
(* Canadian equity dashboard: src/src/dashboard.py and                     *)
(* src/scripts/run_dashboard.py.                                           *)
(*                                                                         *)
(* Strings are sequences of one-character strings.  Floating point values  *)
(* are records [k, n, d]: k = "fin" is the exact rational n/d (d > 0, in   *)
(* lowest terms), k = "inf" is +infinity (n = 1) or -infinity (n = -1),    *)
(* k = "nan" is NaN.  Finite arithmetic is exact (no rounding, no          *)
(* overflow); the special values follow IEEE 754 as numpy and pandas       *)
(* apply it (x/0 is an infinity, 0/0 and inf-inf are NaN, no exception).   *)
(* warnings.warn only reports on stderr and changes no result; it is left  *)
(* out.                                                                    *)
(***************************************************************************)
EXTENDS Integers, Sequences, FiniteSets, TLC

VARIABLES
    pc,         \* position of the running call / process
    ticker,     \* normalize_canadian_ticker: the argument
    out,        \* normalize_canadian_ticker(ticker)
    out2,       \* normalize_canadian_ticker(out)
    series,     \* max_drawdown: the argument, a series of return entries
    mdd,        \* max_drawdown(series)
    df,         \* compute_metrics: the argument, [columns, rows]
    metrics,    \* compute_metrics(df)
    factor,     \* the factor every close of df is multiplied by
    scaled,     \* compute_metrics(df with every close multiplied by factor)
    args,       \* main: the parsed command line [ticker, period, out]
    out_path,   \* main: the output path handed to build_dashboard_html
    t,          \* build_dashboard_html: the normalised ticker
    hist,       \* build_dashboard_html: the provider's response
    frame,      \* build_dashboard_html: the cleaned rows, then with indicators
    summary,    \* build_dashboard_html: the metrics of the cleaned rows
    fig,        \* build_dashboard_html: the figure
    err,        \* the exception that ended the process, if any
    saved,      \* main: the path build_dashboard_html returned
    stdout,     \* the lines the process printed
    writes,     \* the paths the process wrote a file to, in order
    files,      \* the file system: the paths at which a file exists
    files0,     \* the file system as it was when the process started
    dirs,       \* the file system: the directories that exist
    runs        \* processes started so far

normVars == <<ticker, out, out2>>
ddVars == <<series, mdd>>
metVars == <<df, metrics, factor, scaled>>
procVars == <<args, out_path, t, hist, frame, summary, fig, err, saved, stdout, writes>>
fsVars == <<files, files0, dirs, runs>>
dashVars == <<procVars, fsVars>>
vars == <<pc, normVars, ddVars, metVars, dashVars>>

\* Longest ticker string fed to normalize_canadian_ticker.
MaxLen == 4

\* Longest return series fed to max_drawdown.
MaxReturns == 4

\* Most rows of a table fed to compute_metrics.
MaxRows == 3

\* Most processes (runs of the command line) started one after the other.
MaxRuns == 2

\* Longest price history the indicators are computed on.
MaxHist == 203

----------------------------------------------------------------------------
(* Floating point values *)

Abs(i) == IF i < 0 THEN -i ELSE i

RECURSIVE GCD(_, _)
GCD(a, b) == IF b = 0 THEN a ELSE GCD(b, a % b)

\* the rational n/d, d # 0, in lowest terms with a positive denominator
Fin(n, d) ==
    LET g == GCD(Abs(n), Abs(d))
        s == IF d < 0 THEN -1 ELSE 1
    IN  [k |-> "fin", n |-> (s * n) \div g, d |-> (s * d) \div g]

NaN == [k |-> "nan", n |-> 0, d |-> 1]
PInf == [k |-> "inf", n |-> 1, d |-> 1]
NInf == [k |-> "inf", n |-> -1, d |-> 1]
Zero == Fin(0, 1)
One == Fin(1, 1)

\* a cell that is no number at all (a string, None): what errors="coerce"
\* turns into NaN / NaT
Bad == [k |-> "bad", n |-> 0, d |-> 1]

\* np.isfinite
isfinite(x) == x.k = "fin"

\* pd.isna on a float
isna(x) == x.k = "nan"

Sgn(x) == IF x.n > 0 THEN 1 ELSE IF x.n < 0 THEN -1 ELSE 0

Inf(s) == IF s < 0 THEN NInf ELSE PInf

FNeg(a) == [a EXCEPT !.n = -a.n]

FAdd(a, b) ==
    IF isna(a) \/ isna(b) THEN NaN
    ELSE IF a.k = "inf" /\ b.k = "inf" THEN (IF a.n = b.n THEN a ELSE NaN)
    ELSE IF a.k = "inf" THEN a
    ELSE IF b.k = "inf" THEN b
    ELSE Fin(a.n * b.d + b.n * a.d, a.d * b.d)

FSub(a, b) == FAdd(a, FNeg(b))

FMul(a, b) ==
    IF isna(a) \/ isna(b) THEN NaN
    ELSE IF a.k = "inf" \/ b.k = "inf"
         THEN (IF Sgn(a) = 0 \/ Sgn(b) = 0 THEN NaN ELSE Inf(Sgn(a) * Sgn(b)))
    ELSE Fin(a.n * b.n, a.d * b.d)

\* IEEE division: no exception, x/0 is an infinity of x's sign, 0/0 is NaN
FDiv(a, b) ==
    IF isna(a) \/ isna(b) THEN NaN
    ELSE IF a.k = "inf" /\ b.k = "inf" THEN NaN
    ELSE IF a.k = "inf" THEN Inf(IF Sgn(b) < 0 THEN -a.n ELSE a.n)
    ELSE IF b.k = "inf" THEN Zero
    ELSE IF b.n = 0 THEN (IF a.n = 0 THEN NaN ELSE Inf(Sgn(a)))
    ELSE Fin(a.n * b.d, a.d * b.n)

\* a < b; False when either is NaN
FLt(a, b) ==
    IF isna(a) \/ isna(b) THEN FALSE
    ELSE IF a.k = "inf" THEN a.n < 0 /\ ~(b.k = "inf" /\ b.n < 0)
    ELSE IF b.k = "inf" THEN b.n > 0
    ELSE a.n * b.d < b.n * a.d

FLe(a, b) == ~isna(a) /\ ~isna(b) /\ ~FLt(b, a)

\* pd.to_numeric(errors="coerce") on one cell
to_numeric(c) == IF c.k = "bad" THEN NaN ELSE c

----------------------------------------------------------------------------
(* max_drawdown *)

\* Series.dropna
dropna(s) == SelectSeq(s, LAMBDA x : ~isna(x))

\* (1 + s).cumprod()
RECURSIVE cumprod1p(_, _)
cumprod1p(s, acc) ==
    IF s = <<>> THEN <<>>
    ELSE LET c == FMul(acc, FAdd(One, Head(s)))
         IN  <<c>> \o cumprod1p(Tail(s), c)

\* Series.cummax: the running maximum over the non-NaN entries; a NaN entry
\* stays NaN.  mx is the maximum so far (-inf before the first entry).
RECURSIVE cummax(_, _)
cummax(s, mx) ==
    IF s = <<>> THEN <<>>
    ELSE IF isna(Head(s)) THEN <<NaN>> \o cummax(Tail(s), mx)
    ELSE LET m == IF FLt(mx, Head(s)) THEN Head(s) ELSE mx
         IN  <<m>> \o cummax(Tail(s), m)

\* Series.min: the least non-NaN entry, NaN when there is none
RECURSIVE seriesmin(_)
seriesmin(s) ==
    IF s = <<>> THEN NaN
    ELSE LET r == seriesmin(Tail(s))
         IN  IF isna(Head(s)) THEN r
             ELSE IF isna(r) \/ FLt(Head(s), r) THEN Head(s)
             ELSE r

\* faulty variant: the drawdown is taken against the first value, not the running peak
max_drawdown_first_peak(ser) ==
    LET s == dropna([i \in 1..Len(ser) |-> to_numeric(ser[i])])
    IN  IF s = <<>> THEN NaN
        ELSE LET cumulative == cumprod1p(s, One)
                 dd == [i \in 1..Len(s) |->
                           FSub(FDiv(cumulative[i], cumulative[1]), One)]
                 o == seriesmin(dd)
             IN  IF ~isfinite(o) THEN NaN ELSE o

max_drawdown(ser) ==
    LET s == dropna([i \in 1..Len(ser) |-> to_numeric(ser[i])])
    IN  IF s = <<>> THEN NaN
        ELSE LET cumulative == cumprod1p(s, One)
                 peak == cummax(cumulative, NInf)
                 dd == [i \in 1..Len(s) |->
                           FSub(FDiv(cumulative[i], peak[i]), One)]
                 o == seriesmin(dd)
             IN  IF ~isfinite(o) THEN NaN ELSE o

----------------------------------------------------------------------------
(* compute_metrics *)

\* A date cell is [k |-> "date", n |-> day number, d |-> 1]; a date's ISO
\* string and its day number determine each other, so Start and End are kept
\* as the date cell, or NA for the string "N/A".
Day(i) == [k |-> "date", n |-> i, d |-> 1]
NaT == [k |-> "nat", n |-> 0, d |-> 1]
NA == [k |-> "N/A", n |-> 0, d |-> 1]

\* pd.to_datetime(errors="coerce") on one cell
to_datetime(c) == IF c.k = "date" THEN c ELSE NaT

required == {"Date", "Close", "Volume"}

\* Values that stand for a real number that is not rational: CAGR is
\* base ^ (365.25 / days) - 1 and the volatility is the square root of sq
\* (sq = 252 * sample variance).  Both are finite whenever they are formed.
Pow(base, days) == [k |-> "pow", base |-> base, days |-> days]
NaNPow == [k |-> "nan", base |-> NaN, days |-> 0]
Sqrt(sq) == [k |-> "sqrt", sq |-> sq]
NaNSqrt == [k |-> "nan", sq |-> NaN]

TradingPeriods == 252

\* faulty variant: the period change as a difference instead of a ratio
pct_change_diff(c) ==
    [i \in 1..Len(c) |-> IF i = 1 THEN NaN ELSE FSub(c[i], c[i - 1])]

\* Series.pct_change: c[i] / c[i-1] - 1, the first entry undefined
pct_change(c) ==
    [i \in 1..Len(c) |->
        IF i = 1 THEN NaN ELSE FSub(FDiv(c[i], c[i - 1]), One)]

\* Series.sum (the order of the additions does not matter: exact arithmetic)
RECURSIVE FSum(_)
FSum(s) ==
    IF Len(s) = 0 THEN Zero
    ELSE IF Len(s) = 1 THEN s[1]
    ELSE LET h == Len(s) \div 2
         IN  FAdd(FSum(SubSeq(s, 1, h)), FSum(SubSeq(s, h + 1, Len(s))))

\* Series.std squared (ddof = 1): NaN entries are skipped, fewer than two
\* entries give NaN, an infinite entry gives NaN (inf - inf)
variance(s) ==
    LET x == dropna(s)
        n == Len(x)
    IN  IF n < 2 THEN NaN
        ELSE LET mean == FDiv(FSum(x), Fin(n, 1))
                 sq == [i \in 1..n |-> FMul(FSub(x[i], mean), FSub(x[i], mean))]
             IN  FDiv(FSum(sq), Fin(n - 1, 1))

\* lines 63-66: parse Date and Close, drop the rows where either is missing
clean_rows(rows) ==
    SelectSeq([i \in 1..Len(rows) |->
                  [Date |-> to_datetime(rows[i].Date),
                   Close |-> to_numeric(rows[i].Close)]],
              LAMBDA r : r.Date.k # "nat" /\ ~isna(r.Close))

\* lines 68-69: the Return column, then drop the rows whose return is missing
with_returns(d) ==
    LET r == pct_change([i \in 1..Len(d) |-> d[i].Close])
    IN  SelectSeq([i \in 1..Len(d) |->
                      [Date |-> d[i].Date, Close |-> d[i].Close, Return |-> r[i]]],
                  LAMBDA x : ~isna(x.Return))

\* lines 94-101
total_return_of(d) ==
    LET tr == FSub(FDiv(d[Len(d)].Close, d[1].Close), One)
    IN  IF ~isfinite(tr) THEN NaN ELSE tr

\* faulty variant: the check of the elapsed time span is lost
cagr_no_span_check(d, total_return) ==
    LET days == d[Len(d)].Date.n - d[1].Date.n
    IN  IF isfinite(total_return)
        THEN LET base == FAdd(One, total_return)
             IN  IF base.n < 0 THEN NaNPow ELSE Pow(base, days)
        ELSE NaNPow

\* lines 104-120; a negative base to a fractional power is NaN in numpy
cagr_of(d, total_return) ==
    LET days == d[Len(d)].Date.n - d[1].Date.n
    IN  IF days <= 0 THEN NaNPow
        ELSE IF isfinite(total_return)
             THEN LET base == FAdd(One, total_return)
                  IN  IF base.n < 0 THEN NaNPow ELSE Pow(base, days)
        ELSE NaNPow

\* lines 123-130
volatility_of(d) ==
    LET sq == FMul(variance([i \in 1..Len(d) |-> d[i].Return]),
                   Fin(TradingPeriods, 1))
    IN  IF ~isfinite(sq) THEN NaNSqrt ELSE Sqrt(sq)

\* The result of a call: raised = "none" and the returned dict, or the
\* exception raised (then the dict's fields are unset).
Raise(exc, info) ==
    [raised |-> exc, info |-> info, Start |-> NA, End |-> NA,
     TotalReturn |-> NaN, CAGR |-> NaNPow, Volatility |-> NaNSqrt,
     MaxDrawdown |-> NaN]

compute_metrics(tab) ==
    LET missing == required \ tab.columns
    IN  IF missing # {} THEN Raise("ValueError", missing)
        ELSE LET d == with_returns(clean_rows(tab.rows))
                 n == Len(d)
             IN  IF n < 2
                 THEN [raised |-> "none", info |-> {},
                       Start |-> IF n >= 1 THEN d[1].Date ELSE NA,
                       End |-> IF n >= 1 THEN d[n].Date ELSE NA,
                       TotalReturn |-> NaN, CAGR |-> NaNPow,
                       Volatility |-> NaNSqrt, MaxDrawdown |-> NaN]
                 ELSE LET total_return == total_return_of(d)
                          cagr == cagr_of(d, total_return)
                          vol == volatility_of(d)
                          m == max_drawdown([i \in 1..n |-> d[i].Return])
                      IN  [raised |-> "none", info |-> {},
                           Start |-> d[1].Date,
                           End |-> d[n].Date,
                           TotalReturn |-> IF isfinite(total_return)
                                           THEN total_return ELSE NaN,
                           CAGR |-> cagr,
                           Volatility |-> vol,
                           MaxDrawdown |-> IF isfinite(m) THEN m ELSE NaN]

----------------------------------------------------------------------------
(* Strings *)

Alphabet == {" ", "\t", "r", "Y", "t", "O", ".", "^"}

Strings(n) == UNION {[1..k -> Alphabet] : k \in 0..n}

\* str.upper on the characters of the alphabet
upper_char(c) == CASE c = "r" -> "R" [] c = "t" -> "T" [] c = "o" -> "O"
                   [] c = "y" -> "Y" [] OTHER -> c

upper(s) == [i \in 1..Len(s) |-> upper_char(s[i])]

\* the whitespace str.strip removes
IsSpace(c) == c \in {" ", "\t"}

RECURSIVE lstrip(_)
lstrip(s) == IF s # <<>> /\ IsSpace(Head(s)) THEN lstrip(Tail(s)) ELSE s

RECURSIVE rstrip(_)
rstrip(s) == IF s # <<>> /\ IsSpace(s[Len(s)])
             THEN rstrip(SubSeq(s, 1, Len(s) - 1)) ELSE s

\* str.strip
strip(s) == rstrip(lstrip(s))

\* str.startswith(c) for a one-character prefix
startswith(s, c) == s # <<>> /\ s[1] = c

\* c in s
contains(s, c) == \E i \in 1..Len(s) : s[i] = c

DefaultSuffix == <<".", "T", "O">>

\* faulty variant: the ticker is not trimmed
normalize_no_strip(tk) ==
    LET u == upper(tk)
    IN  IF startswith(u, "^") THEN u
        ELSE IF ~contains(u, ".") THEN u \o DefaultSuffix
        ELSE u

normalize_canadian_ticker(tk) ==
    LET u == upper(strip(tk))
    IN  IF startswith(u, "^") THEN u
        ELSE IF ~contains(u, ".") THEN u \o DefaultSuffix
        ELSE u

----------------------------------------------------------------------------
(* Specification of normalize_canadian_ticker: any ticker, normalised, and *)
(* the result normalised again.                                            *)

----------------------------------------------------------------------------
(* build_dashboard_html and main *)

MA50Window == 50
MA200Window == 200
Vol30Window == 30

\* the entries i-w+1..i of s (fewer at the start of s)
Window(s, i, w) == SubSeq(s, IF i - w + 1 < 1 THEN 1 ELSE i - w + 1, i)

\* faulty variant: a window is averaged as soon as it holds one observation
rolling_mean_min1(s, w) ==
    [i \in 1..Len(s) |->
        LET obs == dropna(Window(s, i, w))
        IN  IF Len(obs) < 1 THEN NaN ELSE FDiv(FSum(obs), Fin(Len(obs), 1))]

\* Series.rolling(w).mean(): min_periods defaults to w, so an entry is defined
\* once its window holds w observations that are not NaN
rolling_mean(s, w) ==
    [i \in 1..Len(s) |->
        LET obs == dropna(Window(s, i, w))
        IN  IF Len(obs) < w THEN NaN ELSE FDiv(FSum(obs), Fin(Len(obs), 1))]

\* Series.rolling(w).std() * np.sqrt(252), with the same min_periods
rolling_vol(s, w) ==
    [i \in 1..Len(s) |->
        LET obs == dropna(Window(s, i, w))
            sq == FMul(variance(obs), Fin(TradingPeriods, 1))
        IN  IF Len(obs) < w \/ ~isfinite(sq) THEN NaNSqrt ELSE Sqrt(sq)]

\* lines 162-166: the indicator columns, one entry per row
indicators(rows) ==
    LET close == [i \in 1..Len(rows) |-> rows[i].Close]
        ma50 == rolling_mean(close, MA50Window)
        ma200 == rolling_mean(close, MA200Window)
        ret == pct_change(close)
        vol30 == rolling_vol(ret, Vol30Window)
    IN  [i \in 1..Len(rows) |->
            [Date |-> rows[i].Date, Close |-> rows[i].Close,
             Volume |-> rows[i].Volume, MA50 |-> ma50[i], MA200 |-> ma200[i],
             Return |-> ret[i], Vol30 |-> vol30[i]]]

\* str.replace(a, b) for one-character a and b
replace(s, a, b) == [i \in 1..Len(s) |-> IF s[i] = a THEN b ELSE s[i]]

NoPath == [dir |-> "", name |-> <<>>]

\* run_dashboard.py lines 25-31: the output path
resolve_out_path(a) ==
    IF a.out = NoPath
    THEN [dir |-> "outputs",
          name |-> upper(replace(a.ticker, ".", "_")) \o <<"_">>
                   \o replace(a.period, "/", "_") \o <<".html">>]
    ELSE a.out

NoHist == [kind |-> "unset", columns |-> {}, rows |-> <<>>]
NoneHist == [kind |-> "none", columns |-> {}, rows |-> <<>>]
NoErr == [type |-> "none", at |-> "", ticker |-> <<>>]
NoFig == [built |-> FALSE, title |-> <<>>, period |-> <<>>, rows |-> <<>>,
          summary |-> Raise("unset", {})]

\* DataFrame.empty: no rows or no columns
empty(h) == h.rows = <<>> \/ h.columns = {}

\* values of the variables a specification does not use
NormIdle == ticker = <<>> /\ out = <<>> /\ out2 = <<>>
DDIdle == series = <<>> /\ mdd = NaN
MetIdle ==
    /\ df = [columns |-> {}, rows |-> <<>>]
    /\ metrics = Raise("none", {})
    /\ factor = One
    /\ scaled = Raise("none", {})

ProcIdle ==
    /\ args = [ticker |-> <<>>, period |-> <<>>, out |-> NoPath]
    /\ out_path = NoPath
    /\ t = <<>>
    /\ hist = NoHist
    /\ frame = <<>>
    /\ summary = Raise("unset", {})
    /\ fig = NoFig
    /\ err = NoErr
    /\ saved = NoPath
    /\ stdout = <<>>
    /\ writes = <<>>

DashIdle ==
    /\ ProcIdle
    /\ files = {} /\ files0 = {} /\ dirs = {} /\ runs = 0

\* The command lines and the provider's responses the processes are run on.
DashTickers == {<<"r", "Y">>, <<" ", "R", ".", "T", "O">>, <<"^", "Y">>}
DashPeriods == {<<"5", "y">>, <<"1", "/", "y">>}
DashOuts == {NoPath, [dir |-> "reports", name |-> <<"d", ".html">>]}

Row(dt, c, v) == [Date |-> dt, Close |-> c, Volume |-> v]
Vol100 == Fin(100, 1)
AllColumns == {"Date", "Open", "Close", "Volume"}

ProviderResponses ==
    {NoneHist,
     [kind |-> "table", columns |-> AllColumns, rows |-> <<>>],
     [kind |-> "table", columns |-> {"Date", "Open", "Close"},
      rows |-> <<Row(Day(1), One, Bad)>>],
     [kind |-> "table", columns |-> AllColumns,
      rows |-> <<Row(Day(1), Bad, Vol100), Row(Bad, One, Vol100),
                 Row(Day(2), One, Bad)>>],
     [kind |-> "table", columns |-> AllColumns,
      rows |-> <<Row(Day(1), One, Vol100), Row(Day(2), Fin(2, 1), Bad)>>],
     [kind |-> "table", columns |-> AllColumns,
      rows |-> <<Row(Day(1), One, Vol100), Row(Day(2), Fin(2, 1), Vol100),
                 Row(Day(3), One, Vol100)>>]}

\* run_dashboard.py lines 11-31: parse the command line, create the output
\* directories, resolve the output path
Main ==
    /\ pc = "main"
    /\ \E tk \in DashTickers, p \in DashPeriods, o \in DashOuts :
          LET a == [ticker |-> tk, period |-> p, out |-> o]
          IN  /\ args' = a
              /\ out_path' = resolve_out_path(a)
              /\ dirs' = dirs \cup {"outputs", resolve_out_path(a).dir}
    /\ pc' = "normalize"
    /\ UNCHANGED <<t, hist, frame, summary, fig, err, saved, stdout, writes>>
    /\ UNCHANGED <<files, files0, runs, normVars, ddVars, metVars>>

\* dashboard.py line 146
Normalize ==
    /\ pc = "normalize"
    /\ t' = normalize_canadian_ticker(args.ticker)
    /\ pc' = "fetch"
    /\ UNCHANGED <<args, out_path, hist, frame, summary, fig, err, saved, stdout, writes>>
    /\ UNCHANGED <<fsVars, normVars, ddVars, metVars>>

\* faulty variant: an empty response is not rejected
Fetch_no_empty_check ==
    /\ pc = "fetch"
    /\ \E h \in ProviderResponses : hist' = h
    /\ pc' = "clean"
    /\ UNCHANGED <<args, out_path, t, frame, summary, fig, err, saved, stdout, writes>>
    /\ UNCHANGED <<fsVars, normVars, ddVars, metVars>>

\* dashboard.py lines 148-151: the provider's response; nothing or an empty
\* table raises ValueError
Fetch ==
    /\ pc = "fetch"
    /\ \E h \in ProviderResponses :
          /\ hist' = h
          /\ IF h.kind = "none" \/ empty(h)
             THEN /\ err' = [type |-> "ValueError", at |-> "fetch", ticker |-> t]
                  /\ pc' = "exit1"
             ELSE /\ err' = err
                  /\ pc' = "clean"
    /\ UNCHANGED <<args, out_path, t, frame, summary, fig, saved, stdout, writes>>
    /\ UNCHANGED <<fsVars, normVars, ddVars, metVars>>

\* lines 153-158: the Date, Close and Volume cells parsed, the rows with a
\* missing one dropped
clean_frame(rows) ==
    SelectSeq([i \in 1..Len(rows) |->
                  Row(to_datetime(rows[i].Date), to_numeric(rows[i].Close),
                      to_numeric(rows[i].Volume))],
              LAMBDA r : r.Date.k # "nat" /\ ~isna(r.Close) /\ ~isna(r.Volume))

\* faulty variant: the output file is created before the data is validated
Clean_creates_file ==
    /\ pc = "clean"
    /\ files' = files \cup {out_path}
    /\ IF ~(required \subseteq hist.columns)
       THEN /\ err' = [type |-> "KeyError", at |-> "clean", ticker |-> <<>>]
            /\ pc' = "exit1"
            /\ frame' = frame
       ELSE IF clean_frame(hist.rows) = <<>>
       THEN /\ err' = [type |-> "ValueError", at |-> "clean", ticker |-> t]
            /\ pc' = "exit1"
            /\ frame' = frame
       ELSE /\ err' = err
            /\ pc' = "indicators"
            /\ frame' = clean_frame(hist.rows)
    /\ UNCHANGED <<args, out_path, t, hist, summary, fig, saved, stdout, writes>>
    /\ UNCHANGED <<files0, dirs, runs, normVars, ddVars, metVars>>

\* dashboard.py lines 153-160: selecting a column the table lacks raises
\* KeyError; a table with no parseable row raises ValueError
Clean ==
    /\ pc = "clean"
    /\ IF ~(required \subseteq hist.columns)
       THEN /\ err' = [type |-> "KeyError", at |-> "clean", ticker |-> <<>>]
            /\ pc' = "exit1"
            /\ frame' = frame
       ELSE IF clean_frame(hist.rows) = <<>>
       THEN /\ err' = [type |-> "ValueError", at |-> "clean", ticker |-> t]
            /\ pc' = "exit1"
            /\ frame' = frame
       ELSE /\ err' = err
            /\ pc' = "indicators"
            /\ frame' = clean_frame(hist.rows)
    /\ UNCHANGED <<args, out_path, t, hist, summary, fig, saved, stdout, writes>>
    /\ UNCHANGED <<fsVars, normVars, ddVars, metVars>>

\* dashboard.py lines 162-166
Indicators ==
    /\ pc = "indicators"
    /\ frame' = indicators(frame)
    /\ pc' = "metrics"
    /\ UNCHANGED <<args, out_path, t, hist, summary, fig, err, saved, stdout, writes>>
    /\ UNCHANGED <<fsVars, normVars, ddVars, metVars>>

\* dashboard.py line 168
Metrics ==
    /\ pc = "metrics"
    /\ LET m == compute_metrics(
                    [columns |-> required,
                     rows |-> [i \in 1..Len(frame) |->
                                 Row(frame[i].Date, frame[i].Close, frame[i].Volume)]])
       IN  IF m.raised # "none"
           THEN /\ err' = [type |-> m.raised, at |-> "metrics", ticker |-> <<>>]
                /\ pc' = "exit1"
                /\ summary' = summary
           ELSE /\ err' = err
                /\ pc' = "chart"
                /\ summary' = m
    /\ UNCHANGED <<args, out_path, t, hist, frame, fig, saved, stdout, writes>>
    /\ UNCHANGED <<fsVars, normVars, ddVars, metVars>>

\* dashboard.py lines 170-222: the four panels and the summary annotation
Chart ==
    /\ pc = "chart"
    /\ fig' = [built |-> TRUE, title |-> t, period |-> args.period,
               rows |-> frame, summary |-> summary]
    /\ pc' = "write"
    /\ UNCHANGED <<args, out_path, t, hist, frame, summary, err, saved, stdout, writes>>
    /\ UNCHANGED <<fsVars, normVars, ddVars, metVars>>

\* dashboard.py lines 224-225: write the file, return its path
Write ==
    /\ pc = "write"
    /\ files' = files \cup {out_path}
    /\ writes' = Append(writes, out_path)
    /\ saved' = out_path
    /\ pc' = "print"
    /\ UNCHANGED <<args, out_path, t, hist, frame, summary, fig, err, stdout>>
    /\ UNCHANGED <<files0, dirs, runs, normVars, ddVars, metVars>>

\* run_dashboard.py line 34
Output ==
    /\ pc = "print"
    /\ stdout' = Append(stdout, [text |-> "Saved dashboard to: ", path |-> saved])
    /\ pc' = "exit0"
    /\ UNCHANGED <<args, out_path, t, hist, frame, summary, fig, err, saved, writes>>
    /\ UNCHANGED <<fsVars, normVars, ddVars, metVars>>

\* the command line is run again: a new process, the same file system
Rerun ==
    /\ pc \in {"exit0", "exit1"}
    /\ runs < MaxRuns
    /\ runs' = runs + 1
    /\ files0' = files
    /\ pc' = "main"
    /\ args' = [ticker |-> <<>>, period |-> <<>>, out |-> NoPath]
    /\ out_path' = NoPath
    /\ t' = <<>>
    /\ hist' = NoHist
    /\ frame' = <<>>
    /\ summary' = Raise("unset", {})
    /\ fig' = NoFig
    /\ err' = NoErr
    /\ saved' = NoPath
    /\ stdout' = <<>>
    /\ writes' = <<>>
    /\ UNCHANGED <<files, dirs, normVars, ddVars, metVars>>

DashInit ==
    /\ pc = "main"
    /\ ProcIdle
    /\ files = {} /\ files0 = {} /\ dirs = {} /\ runs = 1
    /\ NormIdle /\ DDIdle /\ MetIdle

DashNext ==
    \/ Main \/ Normalize \/ Fetch \/ Clean \/ Indicators \/ Metrics
    \/ Chart \/ Write \/ Output \/ Rerun

SpecDash == DashInit /\ [][DashNext]_vars

\* the response was nothing, or a table that is empty
EmptyResponse == hist.kind = "none" \/ (hist.kind = "table" /\ empty(hist))

\* C5: when the provider returns nothing or an empty table the call ends in
\* a ValueError whose message carries the requested ticker (in its
\* normalised form: trimmed, upper-cased, with the default suffix where
\* normalisation adds it), and no indicator, metric, chart or file-write
\* step has run.
C5_EmptyResponseFatal ==
    EmptyResponse =>
        /\ pc = "exit1"
        /\ err.type = "ValueError" /\ err.at = "fetch"
        /\ err.ticker = normalize_canadian_ticker(args.ticker)
        /\ LET u == upper(strip(args.ticker))
           IN  SubSeq(err.ticker, 1, Len(u)) = u
        /\ frame = <<>>
        /\ summary.raised = "unset"
        /\ ~fig.built
        /\ writes = <<>> /\ files = files0
        /\ stdout = <<>>

C5_Witness ==
    /\ pc = "exit1"
    /\ hist.kind = "table" /\ hist.rows = <<>>
    /\ args.ticker = <<"r", "Y">>
    /\ err.type = "ValueError"
    /\ err.ticker = <<"R", "Y", ".", "T", "O">>

\* C7 as claimed: after a run that ended in a fatal error no file exists at
\* the output path.
C7_NoFileAfterFatal ==
    pc = "exit1" => out_path \notin files

\* C7, amended: the file is written only as the last step, after normalize,
\* fetch, clean, indicators, metrics and chart have all succeeded; a run that
\* ends in a fatal error writes nothing (the file system is as it was when
\* the run started, so a file exists at the output path only if one existed
\* before) and prints nothing; a successful run returns and prints exactly
\* the path it wrote.
C7_WriteIsLast ==
    /\ writes # <<>> =>
          /\ pc \in {"print", "exit0"}
          /\ writes = <<out_path>>
          /\ t = normalize_canadian_ticker(args.ticker)
          /\ hist.kind = "table" /\ ~empty(hist)
          /\ frame # <<>>
          /\ summary.raised = "none"
          /\ fig.built /\ fig.rows = frame /\ fig.summary = summary
          /\ err = NoErr
    /\ files = files0 \cup {writes[i] : i \in 1..Len(writes)}
    /\ pc = "exit1" =>
          /\ err.type \in {"ValueError", "KeyError"}
          /\ writes = <<>>
          /\ files = files0
          /\ stdout = <<>>
    /\ pc = "exit0" =>
          /\ saved = out_path
          /\ writes = <<out_path>>
          /\ out_path \in files
          /\ stdout = <<[text |-> "Saved dashboard to: ", path |-> out_path]>>
    /\ stdout # <<>> => pc = "exit0"

\* a run that failed on a table without the Volume column, at an output
\* path where an earlier run left a file
C7_Witness ==
    /\ pc = "exit1"
    /\ err.type = "KeyError"
    /\ writes = <<>>
    /\ out_path \in files
    /\ files = files0

NormInit ==
    /\ pc = "norm_input"
    /\ ticker \in Strings(MaxLen)
    /\ out = <<>>
    /\ out2 = <<>>
    /\ DDIdle /\ MetIdle /\ DashIdle

NormCall ==
    /\ pc = "norm_input"
    /\ out' = normalize_canadian_ticker(ticker)
    /\ pc' = "norm_once"
    /\ UNCHANGED <<ticker, out2, ddVars, metVars, dashVars>>

NormAgain ==
    /\ pc = "norm_once"
    /\ out2' = normalize_canadian_ticker(out)
    /\ pc' = "norm_twice"
    /\ UNCHANGED <<ticker, out, ddVars, metVars, dashVars>>

NormNext == NormCall \/ NormAgain

SpecNorm == NormInit /\ [][NormNext]_vars

\* The trimmed ticker, stated declaratively: s without its i leading and its
\* j trailing blanks, where what is left neither starts nor ends with a blank.
IsTrimOf(i, j, s) ==
    LET m == SubSeq(s, i + 1, Len(s) - j)
    IN  /\ i + j <= Len(s)
        /\ \A p \in 1..i : s[p] \in {" ", "\t"}
        /\ \A p \in (Len(s) - j + 1)..Len(s) : s[p] \in {" ", "\t"}
        /\ m = <<>> \/ (m[1] \notin {" ", "\t"} /\ m[Len(m)] \notin {" ", "\t"})

\* C1: the result is the trimmed, upper-cased ticker, with ".TO" appended
\* (once) exactly when the trimmed ticker has no "." and does not start with
\* "^"; normalising the result again changes nothing; the call always
\* returns a string (every call reaches norm_once with a value).
C1_Normalize ==
    /\ pc \in {"norm_once", "norm_twice"} =>
          \E i, j \in 0..Len(ticker) :
              /\ IsTrimOf(i, j, ticker)
              /\ LET m == SubSeq(ticker, i + 1, Len(ticker) - j)
                 IN  out = IF ~contains(m, ".") /\ ~startswith(m, "^")
                           THEN upper(m) \o <<".", "T", "O">>
                           ELSE upper(m)
    /\ pc = "norm_twice" => out2 = out

C1_Witness ==
    /\ pc = "norm_twice"
    /\ ticker = <<" ", "r", "Y", "\t">>
    /\ out = <<"R", "Y", ".", "T", "O">>
    /\ out2 = out

----------------------------------------------------------------------------
(* Specification of max_drawdown: any short series of return entries.      *)

ReturnCells ==
    {Bad, NaN, PInf, Fin(-3, 2), Fin(-1, 1), Fin(-1, 2), Zero, Fin(1, 2), One}

DDInit ==
    /\ pc = "dd_input"
    /\ series \in UNION {[1..k -> ReturnCells] : k \in 0..MaxReturns}
    /\ mdd = NaN
    /\ NormIdle /\ MetIdle /\ DashIdle

DDCall ==
    /\ pc = "dd_input"
    /\ mdd' = max_drawdown(series)
    /\ pc' = "dd_done"
    /\ UNCHANGED <<series, normVars, metVars, dashVars>>

DDNext == DDCall

SpecDD == DDInit /\ [][DDNext]_vars

\* the numeric entries of a series, in order
NumericEntries(ser) == SelectSeq(ser, LAMBDA c : c.k \in {"fin", "inf"})

\* the cumulative wealth index after i returns
RECURSIVE Wealth(_, _)
Wealth(v, i) ==
    IF i = 0 THEN One ELSE FMul(Wealth(v, i - 1), FAdd(One, v[i]))

\* the largest wealth index among the first i
PeakAt(v, i) ==
    CHOOSE x \in {Wealth(v, j) : j \in 1..i} :
        \A j \in 1..i : FLe(Wealth(v, j), x)

DrawdownAt(v, i) == FSub(FDiv(Wealth(v, i), PeakAt(v, i)), One)

\* C8: max_drawdown is undefined when no numeric entry remains; for finite
\* returns all greater than -1 it is defined, non-positive and the minimum
\* over the series of (wealth index / running maximum) - 1; it is 0 when no
\* return is negative, and negative exactly when the wealth index falls
\* below an earlier peak.
C8_MaxDrawdown ==
    pc = "dd_done" =>
        LET v == NumericEntries(series)
            n == Len(v)
        IN  /\ n = 0 => isna(mdd)
            /\ (n > 0 /\ \A i \in 1..n : isfinite(v[i]) /\ FLt(Fin(-1, 1), v[i])) =>
                  /\ isfinite(mdd)
                  /\ FLe(mdd, Zero)
                  /\ \E i \in 1..n : mdd = DrawdownAt(v, i)
                  /\ \A i \in 1..n : FLe(mdd, DrawdownAt(v, i))
                  /\ (\A i \in 1..n : FLe(Zero, v[i])) => mdd = Zero
                  /\ (\E i, j \in 1..n : i < j /\ FLt(Wealth(v, j), Wealth(v, i)))
                        <=> FLt(mdd, Zero)

C8_Witness ==
    /\ pc = "dd_done"
    /\ series = <<One, Bad, Fin(-1, 2), Fin(1, 2)>>
    /\ mdd = Fin(-1, 2)

----------------------------------------------------------------------------
(* Specification of compute_metrics: any small table, then the same table  *)
(* with every close multiplied by a positive factor.                       *)

DateCells == {Bad, Day(1), Day(2), Day(3)}
CloseCells == {Bad, Zero, One, Fin(2, 1), Fin(-1, 1), PInf}
Factors == {Fin(2, 1), Fin(1, 2)}

Rows == [Date : DateCells, Close : CloseCells, Volume : {Fin(100, 1)}]

Tables ==
    {[columns |-> required \cup x, rows |-> r] :
        x \in {{}, {"Open"}},
        r \in UNION {[1..k -> Rows] : k \in 0..MaxRows}}
    \cup
    {[columns |-> c, rows |-> r] :
        c \in (SUBSET required) \ {required},
        r \in {<<>>, <<[Date |-> Day(1), Close |-> One, Volume |-> One]>>}}

\* the table with every close multiplied by k (a cell that is no number
\* stays none)
scale(tab, k) ==
    [tab EXCEPT !.rows = [i \in 1..Len(tab.rows) |->
        [tab.rows[i] EXCEPT !.Close = IF @.k = "bad" THEN @ ELSE FMul(@, k)]]]

MetInit ==
    /\ pc = "met_input"
    /\ df \in Tables
    /\ metrics = Raise("none", {})
    /\ factor = One
    /\ scaled = Raise("none", {})
    /\ NormIdle /\ DDIdle /\ DashIdle

MetCall ==
    /\ pc = "met_input"
    /\ metrics' = compute_metrics(df)
    /\ pc' = "met_done"
    /\ UNCHANGED <<df, factor, scaled, normVars, ddVars, dashVars>>

MetScaled ==
    /\ pc = "met_done"
    /\ \E k \in Factors :
          /\ factor' = k
          /\ scaled' = compute_metrics(scale(df, k))
    /\ pc' = "met_scaled"
    /\ UNCHANGED <<df, metrics, normVars, ddVars, dashVars>>

MetNext == MetCall \/ MetScaled

SpecMetrics == MetInit /\ [][MetNext]_vars

\* The valid records of a table: the rows whose date parses and whose close
\* is a number, in input order.
ValidRows(tab) ==
    SelectSeq(tab.rows, LAMBDA r : r.Date.k = "date" /\ r.Close.k \in {"fin", "inf"})

HasRequired(tab) == required \subseteq tab.columns

Called == pc \in {"met_done", "met_scaled"}

\* every valid record has a finite positive close, and the dates of the valid
\* records strictly increase
CleanHistory(tab) ==
    LET v == ValidRows(tab)
    IN  /\ \A i \in 1..Len(v) : isfinite(v[i].Close) /\ v[i].Close.n > 0
        /\ \A i \in 1..(Len(v) - 1) : v[i].Date.n < v[i + 1].Date.n

\* C2: with the required columns and at least two valid records (dates
\* strictly increasing, closes finite and positive), Total Return and CAGR
\* are defined.
C2_DefinedFromTwoRecords ==
    (Called /\ HasRequired(df) /\ CleanHistory(df) /\ Len(ValidRows(df)) >= 2) =>
        /\ metrics.raised = "none"
        /\ isfinite(metrics.TotalReturn)
        /\ metrics.CAGR.k = "pow"

\* C3: when Total Return is computed it is (last valid close / first valid
\* close) - 1, and Start and End are the dates of the first and the last
\* valid record.
C3_TotalReturnSpan ==
    (Called /\ HasRequired(df) /\ isfinite(metrics.TotalReturn)) =>
        LET v == ValidRows(df)
        IN  /\ Len(v) >= 2
            /\ metrics.TotalReturn = FSub(FDiv(v[Len(v)].Close, v[1].Close), One)
            /\ metrics.Start = v[1].Date
            /\ metrics.End = v[Len(v)].Date

\* C4: with the required columns and fewer than two valid rows the call
\* returns, all four return-based metrics are undefined, and Start and End
\* are the date of the valid row when there is one, "N/A" when there is none.
C4_TooFewRows ==
    (Called /\ HasRequired(df) /\ Len(ValidRows(df)) < 2) =>
        LET v == ValidRows(df)
        IN  /\ metrics.raised = "none"
            /\ isna(metrics.TotalReturn)
            /\ metrics.CAGR.k = "nan"
            /\ metrics.Volatility.k = "nan"
            /\ isna(metrics.MaxDrawdown)
            /\ metrics.Start = IF Len(v) = 1 THEN v[1].Date ELSE NA
            /\ metrics.End = IF Len(v) = 1 THEN v[1].Date ELSE NA

\* the rows the metrics are taken over
Span(tab) == with_returns(clean_rows(tab.rows))

\* C6: with the required columns the call returns, and each of the four
\* metrics is a finite number or undefined, never an infinity; a Total
\* Return that is not finite (a zero or infinite close at either end of the
\* span) leaves Total Return and CAGR undefined, and a day span that is not
\* positive leaves CAGR undefined.  Without a required column the call
\* raises ValueError naming the missing columns, and nothing is computed.
C6_TwoTierErrors ==
    Called =>
        /\ HasRequired(df) =>
              /\ metrics.raised = "none"
              /\ metrics.TotalReturn.k \in {"fin", "nan"}
              /\ metrics.CAGR.k \in {"pow", "nan"}
              /\ metrics.CAGR.k = "pow" => isfinite(metrics.CAGR.base)
              /\ metrics.Volatility.k \in {"sqrt", "nan"}
              /\ metrics.Volatility.k = "sqrt" => isfinite(metrics.Volatility.sq)
              /\ metrics.MaxDrawdown.k \in {"fin", "nan"}
              /\ LET d == Span(df)
                     n == Len(d)
                 IN  n >= 2 =>
                       /\ ~isfinite(FSub(FDiv(d[n].Close, d[1].Close), One)) =>
                             isna(metrics.TotalReturn) /\ metrics.CAGR.k = "nan"
                       /\ d[n].Date.n - d[1].Date.n <= 0 => metrics.CAGR.k = "nan"
        /\ ~HasRequired(df) =>
              /\ metrics.raised = "ValueError"
              /\ metrics.info = required \ df.columns
              /\ metrics = Raise("ValueError", required \ df.columns)

C6_Witness ==
    /\ pc = "met_done"
    /\ HasRequired(df)
    /\ Len(Span(df)) = 2
    /\ Span(df)[1].Close = Zero
    /\ Span(df)[2].Close = One
    /\ Span(df)[2].Return = PInf
    /\ isna(metrics.TotalReturn)
    /\ metrics.raised = "none"

\* C9: multiplying every close by a positive factor changes nothing in the
\* result: Start, End, the four metrics, and which of them are undefined.
C9_ScaleInvariant ==
    pc = "met_scaled" => scaled = metrics

C9_Witness ==
    /\ pc = "met_scaled"
    /\ factor = Fin(2, 1)
    /\ metrics.TotalReturn = Fin(-1, 2)
    /\ metrics.MaxDrawdown = Fin(-1, 2)
    /\ metrics.Volatility.k = "sqrt"
    /\ metrics.CAGR.k = "pow"
    /\ scaled = metrics

----------------------------------------------------------------------------
(* Specification of the indicator columns: histories of every length up to *)
(* MaxHist, the closes repeating a short cycle.                            *)

Cycles ==
    {<<Fin(5, 1)>>, <<One, Fin(2, 1)>>, <<One, Zero, Zero, Fin(2, 1)>>}

History(n, c) ==
    [kind |-> "table", columns |-> AllColumns,
     rows |-> [i \in 1..n |-> Row(Day(i), c[((i - 1) % Len(c)) + 1], Vol100)]]

IndInit ==
    /\ pc = "ind_input"
    /\ \E n \in 1..MaxHist, c \in Cycles : hist = History(n, c)
    /\ args = [ticker |-> <<>>, period |-> <<>>, out |-> NoPath]
    /\ out_path = NoPath /\ t = <<>> /\ frame = <<>>
    /\ summary = Raise("unset", {}) /\ fig = NoFig /\ err = NoErr
    /\ saved = NoPath /\ stdout = <<>> /\ writes = <<>>
    /\ files = {} /\ files0 = {} /\ dirs = {} /\ runs = 0
    /\ NormIdle /\ DDIdle /\ MetIdle

\* dashboard.py lines 153-166 on the history
IndCompute ==
    /\ pc = "ind_input"
    /\ frame' = indicators(clean_frame(hist.rows))
    /\ pc' = "ind_done"
    /\ UNCHANGED <<args, out_path, t, hist, summary, fig, err, saved, stdout, writes>>
    /\ UNCHANGED <<fsVars, normVars, ddVars, metVars>>

IndNext == IndCompute

SpecInd == IndInit /\ [][IndNext]_vars

\* every close of the history is a positive finite number
AllPositive == \A i \in 1..Len(hist.rows) :
    isfinite(hist.rows[i].Close) /\ hist.rows[i].Close.n > 0

\* the derived series have one entry per row, on the rows' dates
Aligned ==
    /\ Len(frame) = Len(hist.rows)
    /\ \A i \in 1..Len(frame) :
          frame[i].Date = hist.rows[i].Date /\ frame[i].Close = hist.rows[i].Close

\* C10 as claimed: the leading undefined entries are the first 49 of the
\* 50-period average, the first 199 of the 200-period average and the first
\* 29 of the 30-period volatility; every later entry is defined.
C10_Leading29 ==
    (pc = "ind_done" /\ AllPositive) =>
        /\ Aligned
        /\ \A i \in 1..Len(frame) :
              /\ isna(frame[i].MA50) <=> i <= 49
              /\ isna(frame[i].MA200) <=> i <= 199
              /\ frame[i].Vol30.k = "nan" <=> i <= 29

\* C10, amended: the leading undefined entries are the first 49 of the
\* 50-period average, the first 199 of the 200-period average and the first
\* 30 of the 30-period volatility (the first return is itself undefined);
\* every later entry is defined.
C10_Leading30 ==
    (pc = "ind_done" /\ AllPositive) =>
        /\ Aligned
        /\ \A i \in 1..Len(frame) :
              /\ isna(frame[i].MA50) <=> i <= 49
              /\ isna(frame[i].MA200) <=> i <= 199
              /\ isna(frame[i].Return) <=> i = 1
              /\ frame[i].Vol30.k = "nan" <=> i <= 30

C10_Witness ==
    /\ pc = "ind_done"
    /\ AllPositive
    /\ Len(frame) = 201
    /\ isna(frame[199].MA200) /\ frame[200].MA200 = Fin(3, 2)
    /\ isna(frame[49].MA50) /\ frame[50].MA50 = Fin(3, 2)
    /\ frame[30].Vol30.k = "nan" /\ frame[31].Vol30.k = "sqrt"

====
